---- MODULE Spec2Model ----
(***************************************************************************)
(* Escalation / session engine of the agentic voice agent                  *)
(* (src/src/agents/agentic_voice_agent.py) and the emergency-call service  *)
(* it drives.  Texts are sequences of one-character strings so that the    *)
(* keyword tests are the substring tests the code performs.  A client id   *)
(* "client_<n>" is represented by the number n; "unknown" and              *)
(* "test_client" are the two other keys that occur.                        *)
(***************************************************************************)
EXTENDS Integers, Sequences, FiniteSets, TLC

\* ---------------------------------------------------------------- bounds
\* number of websockets that ever connect to the server
MaxWs == 3
\* number of inbound frames the server receives in one run
MaxInputs == 2
\* number of direct calls the test scripts make on the agent
MaxCalls == 5
\* largest silence_count a proactive check-in may produce
MaxSilence == 2
\* largest timeout (seconds) handed to wait_for_call_completion
MaxTimeout == 5
\* number of direct calls a script makes when it also drives the protocol methods
MaxProtocolCalls == 3
\* number of phrases joined into one text handed to the keyword functions
MaxWords == 2
\* longest inactivity (seconds) the pipeline's monitor is followed through
MaxIdle == 12
\* largest threshold handed to ResponseDetector, in polls of half a second
MaxThreshold == 3
\* number of polls a ResponseDetector's monitoring is followed through
MaxElapsed == 6
\* number of start_monitoring calls a script makes on one ResponseDetector
MaxEpisodes == 2
\* number of emergency calls stored in the active-call table in one run
MaxStored == 3
\* number of clock steps the active-call table is followed through
MaxClock == 4

\* ------------------------------------------------------- program constants
\* escalation level at which the timer calls instead of re-arming
TerminalLevel == 3
\* confirmation_timeout set when a timer is armed
ConfirmationTimeout == 5
\* range(24) of _monitor_emergency_call
MaxPolls == 24
\* check_interval of wait_for_call_completion
CheckInterval == 2
\* ConversationStateManager.timeout_threshold and escalation_threshold (seconds)
TimeoutThreshold == 5
EscalationThreshold == 10
\* age (seconds) beyond which cleanup_old_calls removes a record
CleanupAge == 3600

\* ------------------------------------------------------------------ texts
fire_keywords ==
    << <<"f","i","r","e">>,
       <<"b","u","r","n","i","n","g">>,
       <<"s","m","o","k","e">>,
       <<"f","l","a","m","e">>,
       <<"b","l","a","z","e">> >>

medical_keywords ==
    << <<"h","e","a","r","t">>,
       <<"c","h","e","s","t"," ","p","a","i","n">>,
       <<"c","a","r","d","i","a","c">>,
       <<"b","r","e","a","t","h","i","n","g">>,
       <<"c","h","o","k","i","n","g">>,
       <<"a","s","t","h","m","a">>,
       <<"i","n","j","u","r","y">>,
       <<"h","u","r","t">>,
       <<"b","l","e","e","d","i","n","g">>,
       <<"b","r","o","k","e","n">>,
       <<"f","r","a","c","t","u","r","e">>,
       <<"u","n","c","o","n","s","c","i","o","u","s">>,
       <<"n","o","t"," ","b","r","e","a","t","h","i","n","g">>,
       <<"m","e","d","i","c","a","l"," ","e","m","e","r","g","e","n","c","y">> >>

danger_keywords ==
    << <<"d","a","n","g","e","r">>,
       <<"t","h","r","e","a","t">>,
       <<"s","o","m","e","o","n","e"," ","b","e","h","i","n","d">>,
       <<"f","o","l","l","o","w","i","n","g">>,
       <<"a","t","t","a","c","k">>,
       <<"i","n","t","r","u","d","e","r">>,
       <<"u","n","s","a","f","e">>,
       <<"s","c","a","r","e","d">>,
       <<"f","e","a","r">>,
       <<"h","e","l","p">>,
       <<"e","m","e","r","g","e","n","c","y">>,
       <<"c","r","i","s","i","s">> >>

general_keywords ==
    << <<"a","c","c","i","d","e","n","t">>,
       <<"c","r","a","s","h">>,
       <<"c","o","l","l","i","s","i","o","n">>,
       <<"c","a","r">>,
       <<"v","e","h","i","c","l","e">>,
       <<"e","m","e","r","g","e","n","c","y">>,
       <<"h","e","l","p">> >>

positive_words ==
    << <<"y","e","s">>,
       <<"y","e","a","h">>,
       <<"y","e","p">>,
       <<"s","u","r","e">>,
       <<"o","k","a","y">>,
       <<"o","k">>,
       <<"c","o","r","r","e","c","t">>,
       <<"r","i","g","h","t">>,
       <<"t","r","u","e">>,
       <<"c","o","n","f","i","r","m","e","d">> >>

call_phrases ==
    << <<"c","a","l","l"," ","e","m","e","r","g","e","n","c","y">>,
       <<"c","a","l","l"," ","9","1","1">>,
       <<"e","m","e","r","g","e","n","c","y"," ","s","e","r","v","i","c","e","s">> >>

FireText ==
    <<"T","h","e","r","e","'","s"," ","a"," ","f","i","r","e"," ","i","n"," ","m","y"," ","k","i","t","c","h","e","n","!"," ","H","e","l","p","!">>

YesText ==
    <<"y","e","s">>

NoText ==
    <<"n","o">>

ReplyCall ==
    <<"I"," ","a","m"," ","c","a","l","l","i","n","g"," ","e","m","e","r","g","e","n","c","y"," ","s","e","r","v","i","c","e","s"," ","n","o","w","."," ","S","t","a","y"," ","o","n"," ","t","h","e"," ","l","i","n","e",".">>

ReplyQuestion ==
    <<"I"," ","n","e","e","d"," ","y","o","u"," ","t","o"," ","r","e","s","p","o","n","d"," ","i","m","m","e","d","i","a","t","e","l","y","."," ","A","r","e"," ","y","o","u"," ","s","a","f","e","?">>

ReplyPlain ==
    <<"S","t","a","y"," ","o","n"," ","t","h","e"," ","l","i","n","e"," ","f","o","r"," ","g","u","i","d","a","n","c","e",".">>

FallbackReply ==
    <<"I","'","m"," ","h","e","r","e"," ","t","o"," ","h","e","l","p","."," ","C","a","n"," ","y","o","u"," ","t","e","l","l"," ","m","e"," ","w","h","a","t","'","s"," ","h","a","p","p","e","n","i","n","g","?">>

UpperChars ==
    <<"A","B","C","D","E","F","G","H","I","J","K","L","M","N","O","P","Q","R","S","T","U","V","W","X","Y","Z">>

LowerChars ==
    <<"a","b","c","d","e","f","g","h","i","j","k","l","m","n","o","p","q","r","s","t","u","v","w","x","y","z">>

EmptyText == << >>

\* str.lower(), character by character
LowerChar(c) ==
    IF \E k \in 1..Len(UpperChars) : UpperChars[k] = c
    THEN LowerChars[CHOOSE k \in 1..Len(UpperChars) : UpperChars[k] = c]
    ELSE c

Lower(text) == [i \in 1..Len(text) |-> LowerChar(text[i])]

\* Python's `kw in text` for strings
Contains(text, kw) ==
    \E i \in 1..(Len(text) - Len(kw) + 1) : SubSeq(text, i, i + Len(kw) - 1) = kw

\* any(keyword in text for keyword in keywords)
AnyKeyword(text, keywords) ==
    \E k \in 1..Len(keywords) : Contains(text, keywords[k])

\* the four tests with the general list consulted before the danger list
detect_emergency_general_first(text) ==
    LET text_lower == Lower(text) IN
    IF AnyKeyword(text_lower, fire_keywords) THEN <<TRUE, "fire">>
    ELSE IF AnyKeyword(text_lower, medical_keywords) THEN <<TRUE, "medical">>
    ELSE IF AnyKeyword(text_lower, general_keywords) THEN <<TRUE, "general">>
    ELSE IF AnyKeyword(text_lower, danger_keywords) THEN <<TRUE, "danger">>
    ELSE <<FALSE, "">>

\* result is <<detected, type>>; "" is the type of a text that matches nothing
detect_emergency(text) ==
    LET text_lower == Lower(text) IN
    IF AnyKeyword(text_lower, fire_keywords) THEN <<TRUE, "fire">>
    ELSE IF AnyKeyword(text_lower, medical_keywords) THEN <<TRUE, "medical">>
    ELSE IF AnyKeyword(text_lower, danger_keywords) THEN <<TRUE, "danger">>
    ELSE IF AnyKeyword(text_lower, general_keywords) THEN <<TRUE, "general">>
    ELSE <<FALSE, "">>

\* the word test on the text as typed, without lower()
is_positive_confirmation_as_typed(user_input) ==
    AnyKeyword(user_input, positive_words)

is_positive_confirmation(user_input) ==
    AnyKeyword(Lower(user_input), positive_words)

\* the reply tests of _handle_agentic_emergency_response
MentionsCall(response) == AnyKeyword(Lower(response), call_phrases)

AsksQuestion(response) == Contains(response, <<"?">>)

\* texts a client sends in the model, and texts the language model returns
Texts == {EmptyText, FireText, YesText, NoText}

Replies == {ReplyCall, ReplyQuestion, ReplyPlain}

\* the keyword tests, evaluated once per text
DetectTable == [t \in Texts |-> detect_emergency(t)]

PositiveTable == [t \in Texts |-> is_positive_confirmation(t)]

\* phrases the test scripts hand to _detect_emergency and _is_positive_confirmation,
\* and phrases that meet several keyword lists or differ from them in case
ChestText ==
    <<"M","y"," ","c","h","e","s","t"," ","h","u","r","t","s"," ","a","n","d"," ","I"," ","c","a","n","'","t"," ","b","r","e","a","t","h","e">>

FollowingText ==
    <<"S","o","m","e","o","n","e"," ","i","s"," ","f","o","l","l","o","w","i","n","g"," ","m","e"," ","a","n","d"," ","I","'","m"," ","s","c","a","r","e","d">>

HelpWord ==
    <<"H","E","L","P">>

CarWord ==
    <<"c","a","r">>

ScaredWord ==
    <<"S","c","a","r","e","d">>

CardiacWord ==
    <<"C","a","r","d","i","a","c">>

SmokeWord ==
    <<"S","m","o","k","e">>

YesWord ==
    <<"Y","e","s">>

NopeWord ==
    <<"n","o","p","e">>

OkayWord ==
    <<"O","K","A","Y">>

FrightWord ==
    <<"f","r","i","g","h","t">>

WeatherWord ==
    <<"s","u","n","n","y">>

Words == {FireText, NoText, ChestText, FollowingText, HelpWord, CarWord, ScaredWord, CardiacWord, SmokeWord, YesWord, NopeWord, OkayWord, FrightWord, WeatherWord}

\* texts of at most n phrases, joined by one space
RECURSIVE WordTexts(_)
WordTexts(n) ==
    IF n = 0 THEN {EmptyText}
    ELSE LET shorter == WordTexts(n - 1) IN
         shorter \cup {IF t = EmptyText THEN w ELSE t \o <<" ">> \o w : t \in shorter, w \in Words}

Corpus == WordTexts(MaxWords)

\* openai_service raised instead of returning a reply
LLMRaises == <<"raise">>

\* what the language-model call of one turn does
LLMResults == Replies \cup {LLMRaises}

\* a _get_agentic_response whose except branch returns the empty string
get_agentic_response_empty_on_error(result) ==
    IF result = LLMRaises THEN EmptyText ELSE result

\* _get_agentic_response: the reply, or the fixed fallback when the call raised
get_agentic_response(result) ==
    IF result = LLMRaises THEN FallbackReply ELSE result

\* openai_service either returns a reply or raises; _get_agentic_response
\* turns the exception into the fixed fallback reply
LLMOutcomes == {get_agentic_response(result) : result \in LLMResults}

MentionsCallTable == [r \in LLMOutcomes |-> MentionsCall(r)]

AsksQuestionTable == [r \in LLMOutcomes |-> AsksQuestion(r)]

\* ------------------------------------------------------------------ state
Ws == 1..MaxWs

\* the Mock websocket of the test scripts; it is never registered
MockWs == 0

\* the key _get_client_id returns for a websocket that is not registered
Unknown == -1

\* the client id test_emergency_call_fix.py passes to _escalation_timer
TestClient == -2

\* conversation_state.emergency_type before any protocol was started
None == "None"

\* the last step made no call whose result is recorded
NoRet == <<"-">>

VARIABLES
    conn,                \* per websocket: state of its handle_websocket call and its client_id
    active_connections,  \* self.active_connections: client id -> websocket
    proactive_tasks,     \* self.proactive_tasks: client id -> monitor task (named by its websocket)
    escalation_tasks,    \* self.escalation_tasks: client id -> index of a timer task
    monitors,            \* per websocket: state of its _proactive_monitoring task
    tasks,               \* every _escalation_timer coroutine created so far
    conversation_state,  \* self.conversation_state (one object per agent)
    voice_state,         \* self.voice_state (one object per agent)
    initiate_calls,      \* per websocket: calls of emergency_call_service.initiate_emergency_call
    call_monitors,       \* per websocket: _monitor_emergency_call tasks created
    inputs,              \* inbound frames received so far
    calls,               \* the direct calls a test script has made so far, in order
    polling,             \* the call-status polling loops: _monitor_emergency_call and wait_for_call_completion
    pipeline,            \* the pipecat pipeline's ConversationStateManager and its monitor loop
    detector,            \* the ResponseDetector a script created, or NoDetector
    call_service,        \* EmergencyCallService: active_calls, and the time now
    ret,                 \* what the call made by the last step returned (NoRet: no such call)
    sent,                \* frames delivered by the last step, in order
    op                   \* the last step taken

vars == <<conn, active_connections, proactive_tasks, escalation_tasks, monitors,
          tasks, conversation_state, voice_state, initiate_calls, call_monitors,
          inputs, calls, polling, pipeline, detector, call_service, ret, sent, op>>

\* AgenticConversationState.__init__
NewConversationState ==
    [current_step |-> 0, steps_completed |-> << >>, pending_confirmation |-> FALSE,
     confirmation_timeout |-> 0, escalation_level |-> 0, emergency_type |-> None]

\* AgenticVoiceState.__init__
NewVoiceState ==
    [silence_count |-> 0, emergency_detected |-> FALSE, conversation_stage |-> "standby"]

\* AgenticConversationState.start_emergency_protocol
start_emergency_protocol(cs, emergency_type) ==
    [cs EXCEPT !.emergency_type = emergency_type, !.current_step = 1,
               !.steps_completed = << >>, !.escalation_level = 0]

\* a confirm_step that also clears the escalation level
confirm_step_resetting(cs) ==
    [cs EXCEPT !.steps_completed = Append(cs.steps_completed, cs.current_step),
               !.current_step = cs.current_step + 1,
               !.pending_confirmation = FALSE,
               !.confirmation_timeout = 0,
               !.escalation_level = 0]

\* a confirm_step that leaves the confirmation pending
confirm_step_keeping_pending(cs) ==
    [cs EXCEPT !.steps_completed = Append(cs.steps_completed, cs.current_step),
               !.current_step = cs.current_step + 1,
               !.confirmation_timeout = 0]

\* AgenticConversationState.confirm_step
confirm_step(cs) ==
    [cs EXCEPT !.steps_completed = Append(cs.steps_completed, cs.current_step),
               !.current_step = cs.current_step + 1,
               !.pending_confirmation = FALSE,
               !.confirmation_timeout = 0]

\* an escalate that also moves the protocol one step on
escalate_advancing(cs) ==
    [cs EXCEPT !.escalation_level = cs.escalation_level + 1,
               !.pending_confirmation = FALSE,
               !.current_step = cs.current_step + 1]

\* AgenticConversationState.escalate
escalate(cs) ==
    [cs EXCEPT !.escalation_level = cs.escalation_level + 1,
               !.pending_confirmation = FALSE]

\* AgenticConversationState.get_next_step: the dict it returns, whatever cs is
get_next_step(cs) ==
    [action |-> "llm_driven", message |-> "LLM will decide the appropriate response."]

\* no call-status loop has been started.  mon is _monitor_emergency_call
\* (i: rounds of its loop, polls: calls of get_call_status, updates: messages
\* sent, last: the last poll result, terminal_seen: a poll returned answered,
\* completed, failed, busy or no-answer); wait is wait_for_call_completion
NewPolling ==
    [mon |-> [st |-> "idle", i |-> 0, polls |-> 0, updates |-> 0, last |-> "none",
              terminal_seen |-> FALSE],
     wait |-> [st |-> "idle", timeout |-> 0, elapsed_time |-> 0, polls |-> 0,
               ret |-> "none"]]

\* ConversationStateManager.__init__ and PipecatPipelineManager with its
\* monitor running; idle is the time in seconds since last_user_activity
\* (NoActivity while it is None), awaiting whether a sentence has had no
\* reply yet, handled the urgency levels at which _handle_timeout ran since
\* the last user activity
NoActivity == -1

NewPipeline ==
    [current_state |-> "idle", current_urgency |-> "normal", idle |-> NoActivity,
     awaiting |-> FALSE, handled |-> << >>]

\* no ResponseDetector has been constructed
NoDetector == [status |-> "none"]

\* EmergencyCallService.__init__: an empty active_calls; now is the clock
NewCallService == [active_calls |-> << >>, now |-> 0, created |-> 0]

Init ==
    /\ conn = [w \in Ws |-> [st |-> "new", client_id |-> Unknown]]
    /\ active_connections = << >>
    /\ proactive_tasks = << >>
    /\ escalation_tasks = << >>
    /\ monitors = [w \in Ws |-> "none"]
    /\ tasks = << >>
    /\ conversation_state = NewConversationState
    /\ voice_state = NewVoiceState
    /\ initiate_calls = [w \in Ws \cup {MockWs} |-> 0]
    /\ call_monitors = [w \in Ws \cup {MockWs} |-> 0]
    /\ inputs = 0
    /\ calls = << >>
    /\ polling = NewPolling
    /\ pipeline = NewPipeline
    /\ detector = NoDetector
    /\ call_service = NewCallService
    /\ ret = NoRet
    /\ sent = << >>
    /\ op = [name |-> "init", ws |-> MockWs, arg |-> EmptyText]

\* ---------------------------------------------------------------- helpers
\* websocket.send succeeds on an open connection (the Mock always accepts)
IsOpen(w) == w = MockWs \/ conn[w].st = "open"

\* the frames of one step that reach the client; a send on a closed
\* connection raises and delivers nothing
Frames(w, tags) ==
    IF IsOpen(w) THEN [i \in 1..Len(tags) |-> [to |-> w, tag |-> tags[i]]] ELSE << >>

\* dict assignment d[k] = v
Put(d, k, v) == [x \in DOMAIN d \cup {k} |-> IF x = k THEN v ELSE d[x]]

\* del d[k]
Del(d, k) == [x \in DOMAIN d \ {k} |-> d[x]]

\* AgenticVoiceAgent._get_client_id
get_client_id(websocket) ==
    IF \E k \in DOMAIN active_connections : active_connections[k] = websocket
    THEN CHOOSE k \in DOMAIN active_connections : active_connections[k] = websocket
    ELSE Unknown

\* a task that has neither finished nor been cancelled
IsLive(task) == task.st \notin {"done", "cancelled"}

\* a timer that still wakes up after Task.cancel()
TimerRunnableIgnoringCancel(task) == task.st \in {"sleeping", "cancelled"}

\* the delay of a timer elapses only for a task still waiting in its sleep
TimerRunnable(task) == task.st = "sleeping"

\* Task.cancel(): no effect on a finished task; otherwise CancelledError is
\* raised at the await the task waits in, and _escalation_timer swallows it
CancelTask(tk, id) ==
    IF IsLive(tk[id])
    THEN [tk EXCEPT ![id].st = "cancelled", ![id].early = (tk[id].st = "sleeping")]
    ELSE tk

\* if client_id in self.escalation_tasks: self.escalation_tasks[client_id].cancel()
CancelStored(tk, client_id) ==
    IF client_id \in DOMAIN escalation_tasks
    THEN CancelTask(tk, escalation_tasks[client_id])
    ELSE tk

\* asyncio.create_task(self._escalation_timer(websocket, client_id, ...))
NewTimer(websocket, client_id) ==
    [ws |-> websocket, client_id |-> client_id, st |-> "sleeping",
     early |-> FALSE, fired |-> FALSE]

\* the arm sequence: pending_confirmation, confirmation_timeout, cancel, create, store
ArmState(cs) ==
    [cs EXCEPT !.pending_confirmation = TRUE, !.confirmation_timeout = ConfirmationTimeout]

\* the frame tag of a language-model reply
ReplyTag(reply) == IF reply = FallbackReply THEN "fallback" ELSE "reply"

\* _handle_agentic_emergency_response after the reply was obtained: the new
\* conversation state, task table and timer registry, and the frame sent
EmergencyResponse(websocket, reply) ==
    LET cs == conversation_state
        arm == /\ ~cs.pending_confirmation
               /\ MentionsCallTable[reply] \/ AsksQuestionTable[reply]
        client_id == get_client_id(websocket)
    IN  IF arm
        THEN [cs |-> ArmState(cs),
              tk |-> Append(CancelStored(tasks, client_id), NewTimer(websocket, client_id)),
              et |-> Put(escalation_tasks, client_id, Len(tasks) + 1),
              tag |-> IF MentionsCallTable[reply] THEN "permission_q" ELSE ReplyTag(reply)]
        ELSE [cs |-> cs, tk |-> tasks, et |-> escalation_tasks, tag |-> ReplyTag(reply)]

\* outcomes of emergency_call_service.initiate_emergency_call: a call sid, None
\* (calls disabled, no client, provider error), or an exception
CallOutcomes == {"sid", "none", "raise"}

\* _initiate_real_emergency_call reports the call only if a sid came back and
\* building the report succeeds: emergency_type.upper() raises for None, and
\* every exception ends in _simulate_emergency_call
CallReported(outcome, emergency_type) == outcome = "sid" /\ emergency_type # None

\* ---------------------------------------------------------- session manager
\* handle_websocket up to its message loop
Connect ==
    \E w \in Ws :
        /\ conn[w].st = "new"
        /\ \A v \in Ws : v < w => conn[v].st # "new"
        /\ LET client_id == Cardinality(DOMAIN active_connections) IN
           /\ conn' = [conn EXCEPT ![w] = [st |-> "open", client_id |-> client_id]]
           /\ active_connections' = Put(active_connections, client_id, w)
           /\ proactive_tasks' = Put(proactive_tasks, client_id, w)
        /\ monitors' = [monitors EXCEPT ![w] = "running"]
        /\ sent' = << >>
        /\ op' = [name |-> "connect", ws |-> w, arg |-> EmptyText]
        /\ ret' = NoRet
        /\ UNCHANGED <<polling, pipeline, detector, call_service>>
        /\ UNCHANGED <<escalation_tasks, tasks, conversation_state, voice_state,
                       initiate_calls, call_monitors, inputs, calls>>

\* the connection of w fails or starts its closing handshake: from now on
\* websocket.send raises, while handle_websocket has not yet left its
\* message loop
ConnectionLost(w) ==
    /\ conn[w].st = "open"
    /\ conn' = [conn EXCEPT ![w].st = "lost"]
    /\ sent' = << >>
    /\ op' = [name |-> "lost", ws |-> w, arg |-> EmptyText]
    /\ ret' = NoRet
    /\ UNCHANGED <<active_connections, proactive_tasks, escalation_tasks, monitors, tasks,
                   conversation_state, voice_state, initiate_calls, call_monitors,
                   inputs, calls, polling,
                   pipeline, detector, call_service>>

\* the message loop of w ends (connection closed, or an error raised by the
\* iteration) and the finally block runs
Disconnect(w) ==
    /\ conn[w].st \in {"open", "lost"}
    /\ LET client_id == conn[w].client_id IN
       /\ active_connections' =
             IF client_id \in DOMAIN active_connections
             THEN Del(active_connections, client_id) ELSE active_connections
       /\ monitors' =
             IF client_id \in DOMAIN proactive_tasks
             THEN [monitors EXCEPT ![proactive_tasks[client_id]] = "cancelled"]
             ELSE monitors
       /\ tasks' = CancelStored(tasks, client_id)
    /\ conn' = [conn EXCEPT ![w].st = "closed"]
    /\ sent' = << >>
    /\ op' = [name |-> "disconnect", ws |-> w, arg |-> EmptyText]
    /\ ret' = NoRet
    /\ UNCHANGED <<polling, pipeline, detector, call_service>>
    /\ UNCHANGED <<proactive_tasks, escalation_tasks, conversation_state, voice_state,
                   initiate_calls, call_monitors, inputs, calls>>

\* ------------------------------------------------------------ turn pipeline
\* the emergency branch shared by the text and the audio handler
EmergencyTurn(w, reply, before) ==
    LET r == EmergencyResponse(w, reply) IN
    /\ conversation_state' = r.cs
    /\ tasks' = r.tk
    /\ escalation_tasks' = r.et
    /\ sent' = Frames(w, before \o <<r.tag>>)
    /\ UNCHANGED <<initiate_calls, call_monitors>>

\* a handler that marked every input as the start of an active conversation
user_spoke_activating(vs) ==
    [vs EXCEPT !.conversation_stage = "active", !.silence_count = 0]

\* what both handlers do to the voice state for an input that is no
\* emergency: standby becomes active, the silence count is reset
user_spoke(vs) ==
    [vs EXCEPT !.conversation_stage = IF @ = "standby" THEN "active" ELSE @,
               !.silence_count = 0]

\* process_message -> handle_text_message
HandleText(w, text) ==
    /\ conn[w].st = "open"
    /\ inputs < MaxInputs
    /\ inputs' = inputs + 1
    /\ op' = [name |-> "text", ws |-> w, arg |-> text]
    /\ UNCHANGED <<polling, pipeline, detector, call_service>>
    /\ UNCHANGED <<conn, active_connections, proactive_tasks, monitors, calls>>
    /\ IF text = EmptyText
       THEN /\ sent' = << >>
            /\ ret' = NoRet
            /\ UNCHANGED <<voice_state, conversation_state, tasks, escalation_tasks,
                           initiate_calls, call_monitors>>
       ELSE IF DetectTable[text][1]
       THEN /\ voice_state' = [voice_state EXCEPT !.emergency_detected = TRUE,
                                                  !.conversation_stage = "emergency"]
            /\ \E result \in LLMResults :
                   /\ ret' = <<"llm", result = LLMRaises>>
                   /\ EmergencyTurn(w, get_agentic_response(result), << >>)
       ELSE /\ voice_state' = user_spoke(voice_state)
            /\ IF conversation_state.current_step > 0
                  \/ conversation_state.emergency_type # None
               THEN IF conversation_state.pending_confirmation /\ PositiveTable[text]
                    THEN \* the whole call runs inside this handler invocation
                         /\ conversation_state' =
                               [conversation_state EXCEPT !.pending_confirmation = FALSE]
                         /\ tasks' = CancelStored(tasks, conn[w].client_id)
                         /\ initiate_calls' = [initiate_calls EXCEPT ![w] = @ + 1]
                         /\ \E outcome \in CallOutcomes :
                               /\ ret' = <<"initiate", outcome>>
                               /\ IF CallReported(outcome, conversation_state.emergency_type)
                                  THEN /\ sent' = Frames(w, <<"call_initiated">>)
                                       /\ call_monitors' = [call_monitors EXCEPT ![w] = @ + 1]
                                  ELSE /\ sent' = Frames(w, <<"sim_start", "sim_done">>)
                                       /\ UNCHANGED call_monitors
                         /\ UNCHANGED escalation_tasks
                    ELSE \E result \in LLMResults :
                             /\ ret' = <<"llm", result = LLMRaises>>
                             /\ EmergencyTurn(w, get_agentic_response(result), << >>)
               ELSE \* the reply, then speech synthesis: audio, nothing, or an
                    \* exception that the handler answers with an error frame
                    /\ \E result \in LLMResults, tts \in BOOLEAN :
                           /\ ret' = <<"llm", result = LLMRaises>>
                           /\ sent' = Frames(w, <<ReplyTag(get_agentic_response(result))>>
                                                 \o (IF tts THEN << >> ELSE <<"error">>))
                    /\ UNCHANGED <<conversation_state, tasks, escalation_tasks,
                                   initiate_calls, call_monitors>>

\* process_message -> handle_audio_message; transcript is what whisper
\* returns (empty when it fails), tts whether speech synthesis returned audio
HandleAudio(w, transcript) ==
    /\ conn[w].st = "open"
    /\ inputs < MaxInputs
    /\ inputs' = inputs + 1
    /\ op' = [name |-> "audio", ws |-> w, arg |-> transcript]
    /\ UNCHANGED <<polling, pipeline, detector, call_service>>
    /\ UNCHANGED <<conn, active_connections, proactive_tasks, monitors, calls>>
    /\ IF transcript = EmptyText
       THEN /\ sent' = Frames(w, <<"status", "error">>)
            /\ ret' = NoRet
            /\ UNCHANGED <<voice_state, conversation_state, tasks, escalation_tasks,
                           initiate_calls, call_monitors>>
       ELSE IF DetectTable[transcript][1]
       THEN /\ voice_state' = [voice_state EXCEPT !.emergency_detected = TRUE,
                                                  !.conversation_stage = "emergency"]
            /\ \E result \in LLMResults :
                   /\ ret' = <<"llm", result = LLMRaises>>
                   /\ EmergencyTurn(w, get_agentic_response(result), <<"status", "transcript">>)
       ELSE /\ voice_state' = user_spoke(voice_state)
            /\ IF conversation_state.current_step > 0
               THEN \E result \in LLMResults :
                        /\ ret' = <<"llm", result = LLMRaises>>
                        /\ EmergencyTurn(w, get_agentic_response(result), <<"status", "transcript">>)
               ELSE /\ \E result \in LLMResults, tts \in BOOLEAN :
                        /\ ret' = <<"llm", result = LLMRaises>>
                        /\ sent' = Frames(w, <<"status", "transcript",
                                               ReplyTag(get_agentic_response(result)), "status">>
                                              \o (IF tts THEN << >> ELSE <<"error">>))
                    /\ UNCHANGED <<conversation_state, tasks, escalation_tasks,
                                   initiate_calls, call_monitors>>

\* a dispatcher that answers every frame it cannot route
OtherReplyAlways(kind) == IF kind = "ping" THEN <<"pong">> ELSE <<"error">>

\* the frames process_message itself sends: the answer to "ping"; the else
\* branch and both except clauses only log
OtherReply(kind) == IF kind = "ping" THEN <<"pong">> ELSE << >>

\* process_message for the frames that reach no handler: "ping" is answered,
\* an unknown type and undecodable JSON are logged
HandleOther(w, kind) ==
    /\ conn[w].st = "open"
    /\ inputs < MaxInputs
    /\ inputs' = inputs + 1
    /\ op' = [name |-> kind, ws |-> w, arg |-> EmptyText]
    /\ ret' = NoRet
    /\ UNCHANGED <<polling, pipeline, detector, call_service>>
    /\ sent' = Frames(w, OtherReply(kind))
    /\ UNCHANGED <<conn, active_connections, proactive_tasks, escalation_tasks, monitors,
                   tasks, conversation_state, voice_state, initiate_calls,
                   call_monitors, calls>>

\* ------------------------------------------------------------ timer manager
\* _escalation_timer from the re-arm test on, for task t whose escalation
\* reply was handed to websocket.send; cs and tk are the state it resumes in
AfterSend(t, cs, tk, frames) ==
    LET task == tk[t] IN
    IF cs.escalation_level < TerminalLevel
    THEN \* re-arm: the stored task (this one, unless the key was taken over) is
         \* cancelled, a new timer is created and stored, and this task returns
         LET tk1 == CancelStored(tk, task.client_id)
             tk2 == IF IsLive(tk1[t]) THEN [tk1 EXCEPT ![t].st = "done"] ELSE tk1
         IN  /\ conversation_state' = ArmState(cs)
             /\ tasks' = Append(tk2, NewTimer(task.ws, task.client_id))
             /\ escalation_tasks' = Put(escalation_tasks, task.client_id, Len(tk) + 1)
             /\ sent' = frames
             /\ ret' = NoRet
             /\ UNCHANGED <<initiate_calls, call_monitors>>
    ELSE \* terminal level: _initiate_real_emergency_call, no further timer
         \E outcome \in CallOutcomes :
             /\ conversation_state' = cs
             /\ ret' = <<"initiate", outcome>>
             /\ initiate_calls' = [initiate_calls EXCEPT ![task.ws] = @ + 1]
             /\ IF CallReported(outcome, cs.emergency_type)
                THEN /\ tasks' = [tk EXCEPT ![t].st = "reporting"]
                     /\ sent' = frames \o Frames(task.ws, <<"call_initiated">>)
                ELSE /\ tasks' = [tk EXCEPT ![t].st = "simulating"]
                     /\ sent' = frames \o Frames(task.ws, <<"sim_start">>)
             /\ UNCHANGED <<escalation_tasks, call_monitors>>

\* the delay of timer t elapses: _escalation_timer from the pending test up to
\* the send of the escalation reply.  A send on a closed connection raises at
\* once, so the handler runs on without suspending.
TimerFire(t) ==
    /\ TimerRunnable(tasks[t])
    /\ op' = [name |-> "fire", ws |-> tasks[t].ws, arg |-> EmptyText]
    /\ UNCHANGED <<polling, pipeline, detector, call_service>>
    /\ UNCHANGED <<conn, active_connections, proactive_tasks, monitors, voice_state,
                   inputs, calls>>
    /\ IF conversation_state.pending_confirmation
       THEN LET cs == escalate(conversation_state)
                frames == Frames(tasks[t].ws, <<"escalation">>)
            IN  IF IsOpen(tasks[t].ws)
                THEN /\ conversation_state' = cs
                     /\ tasks' = [tasks EXCEPT ![t].st = "sending", ![t].fired = TRUE]
                     /\ sent' = frames
                     /\ ret' = NoRet
                     /\ UNCHANGED <<escalation_tasks, initiate_calls, call_monitors>>
                ELSE AfterSend(t, cs, [tasks EXCEPT ![t].st = "sending", ![t].fired = TRUE],
                               frames)
       ELSE /\ tasks' = [tasks EXCEPT ![t].st = "done"]
            /\ sent' = << >>
            /\ ret' = NoRet
            /\ UNCHANGED <<conversation_state, escalation_tasks, initiate_calls,
                           call_monitors>>

\* timer t resumes after the send of its escalation reply
TimerContinue(t) ==
    /\ tasks[t].st = "sending"
    /\ op' = [name |-> "continue", ws |-> tasks[t].ws, arg |-> EmptyText]
    /\ UNCHANGED <<polling, pipeline, detector, call_service>>
    /\ UNCHANGED <<conn, active_connections, proactive_tasks, monitors, voice_state,
                   inputs, calls>>
    /\ AfterSend(t, conversation_state, tasks, << >>)

\* _simulate_emergency_call after its sleep: the second message, then the
\* timer coroutine returns
SimFinish(t) ==
    /\ tasks[t].st = "simulating"
    /\ tasks' = [tasks EXCEPT ![t].st = "done"]
    /\ sent' = Frames(tasks[t].ws, <<"sim_done">>)
    /\ op' = [name |-> "sim_finish", ws |-> tasks[t].ws, arg |-> EmptyText]
    /\ ret' = NoRet
    /\ UNCHANGED <<polling, pipeline, detector, call_service>>
    /\ UNCHANGED <<conn, active_connections, proactive_tasks, escalation_tasks, monitors,
                   conversation_state, voice_state, initiate_calls, call_monitors,
                   inputs, calls>>

\* _initiate_real_emergency_call after the send of its report: the status
\* monitor is created and the timer coroutine returns
StartCallMonitor(t) ==
    /\ tasks[t].st = "reporting"
    /\ tasks' = [tasks EXCEPT ![t].st = "done"]
    /\ call_monitors' = [call_monitors EXCEPT ![tasks[t].ws] = @ + 1]
    /\ sent' = << >>
    /\ op' = [name |-> "start_monitor", ws |-> tasks[t].ws, arg |-> EmptyText]
    /\ ret' = NoRet
    /\ UNCHANGED <<polling, pipeline, detector, call_service>>
    /\ UNCHANGED <<conn, active_connections, proactive_tasks, escalation_tasks, monitors,
                   conversation_state, voice_state, initiate_calls, inputs, calls>>

\* --------------------------------------------------------- proactive monitor
\* the check-in test without its standby clause
ProactiveConditionAnyStage(vs) ==
    vs.silence_count > 0 /\ ~vs.emergency_detected

\* the check-in test without its silence clause
ProactiveConditionIgnoringSilence(vs) ==
    ~vs.emergency_detected /\ vs.conversation_stage # "standby"

\* the first test of _proactive_monitoring: the gentle check-in
ProactiveCondition(vs) ==
    vs.silence_count > 0 /\ ~vs.emergency_detected /\ vs.conversation_stage # "standby"

\* the second test of _proactive_monitoring: silent during an emergency
EmergencyCondition(vs) ==
    vs.emergency_detected /\ vs.silence_count > 0

\* the sleeps of _take_emergency_action, after the first, second and final warning
Warned == {"warned1", "warned2", "warned3"}

\* one round of _proactive_monitoring for the monitor of websocket w: the
\* interval elapses and the tests run.  _take_proactive_action sends the
\* check-in and then counts it; a send that raises skips the count.
\* _take_emergency_action sends its first warning and sleeps.
MonitorPoll(w) ==
    /\ monitors[w] = "running"
    /\ ProactiveCondition(voice_state) => voice_state.silence_count < MaxSilence
    /\ op' = [name |-> "poll", ws |-> w, arg |-> EmptyText]
    /\ ret' = NoRet
    /\ UNCHANGED <<conn, active_connections, proactive_tasks, escalation_tasks, tasks,
                   conversation_state, initiate_calls, call_monitors, inputs, calls,
                   polling,
                   pipeline, detector, call_service>>
    /\ IF ProactiveCondition(voice_state)
       THEN /\ \E tts \in BOOLEAN :
                   sent' = Frames(w, <<"checkin">> \o (IF tts THEN <<"checkin_audio">> ELSE << >>))
            /\ voice_state' =
                  IF IsOpen(w)
                  THEN [voice_state EXCEPT !.silence_count = @ + 1]
                  ELSE voice_state
            /\ UNCHANGED monitors
       ELSE IF EmergencyCondition(voice_state)
       THEN /\ sent' = Frames(w, <<"warning1">>)
            /\ monitors' = IF IsOpen(w) THEN [monitors EXCEPT ![w] = "warned1"] ELSE monitors
            /\ UNCHANGED voice_state
       ELSE /\ sent' = << >>
            /\ UNCHANGED <<voice_state, monitors>>

\* _take_emergency_action after one of its sleeps: the next warning if the
\* user is still silent, and after the final one the emergency action;
\* _simulate_emergency_services reads an undefined name and sends nothing
MonitorWarn(w) ==
    /\ monitors[w] \in Warned
    /\ op' = [name |-> "warn", ws |-> w, arg |-> EmptyText]
    /\ ret' = NoRet
    /\ UNCHANGED <<conn, active_connections, proactive_tasks, escalation_tasks, tasks,
                   conversation_state, voice_state, initiate_calls, call_monitors,
                   inputs, calls, polling,
                   pipeline, detector, call_service>>
    /\ IF voice_state.silence_count > 0
       THEN LET next == CASE monitors[w] = "warned1" -> [tag |-> "warning2", st |-> "warned2"]
                          [] monitors[w] = "warned2" -> [tag |-> "warning3", st |-> "warned3"]
                          [] OTHER -> [tag |-> "emergency_action", st |-> "running"]
            IN  /\ sent' = Frames(w, <<next.tag>>)
                /\ monitors' = [monitors EXCEPT ![w] = IF IsOpen(w) THEN next.st ELSE "running"]
       ELSE /\ sent' = << >>
            /\ monitors' = [monitors EXCEPT ![w] = "running"]

\* ------------------------------------------------------------- the server
Next ==
    \/ Connect
    \/ \E w \in Ws : ConnectionLost(w)
    \/ \E w \in Ws : Disconnect(w)
    \/ \E w \in Ws, text \in Texts : HandleText(w, text)
    \/ \E w \in Ws, text \in Texts : HandleAudio(w, text)
    \/ \E w \in Ws, kind \in {"ping", "unknown", "malformed"} : HandleOther(w, kind)
    \/ \E t \in DOMAIN tasks : TimerFire(t)
    \/ \E t \in DOMAIN tasks : TimerContinue(t)
    \/ \E t \in DOMAIN tasks : SimFinish(t)

Spec == Init /\ [][Next]_vars

\* every timer task is scheduled by the event loop: a timer whose delay has
\* elapsed, or that waits in a send or in the two-second sleep, runs on.  At
\* most one timer is created per arming frame and one per re-arm below the
\* terminal level.
FairSpec == Spec /\ \A i \in 1..(MaxInputs + TerminalLevel - 1) :
    /\ WF_vars(i \in DOMAIN tasks /\ TimerFire(i))
    /\ WF_vars(i \in DOMAIN tasks /\ TimerContinue(i))
    /\ WF_vars(i \in DOMAIN tasks /\ SimFinish(i))
\* ------------------------------------------------------- the test scripts
\* test_emergency_call_fix.py and demo_escalation_test.py drive
\* the agent without a server: they call its methods on a Mock websocket

\* a script awaits _escalation_timer itself; until that coroutine returns the
\* script makes no further call
ScriptIdle == \A t \in DOMAIN tasks : tasks[t].client_id = TestClient => ~IsLive(tasks[t])

\* a direct call whose result the script keeps
ScriptCallReturning(name, value) ==
    /\ Len(calls) < MaxCalls
    /\ ScriptIdle
    /\ calls' = Append(calls, name)
    /\ op' = [name |-> name, ws |-> MockWs, arg |-> EmptyText]
    /\ ret' = value
    /\ UNCHANGED <<polling, pipeline, detector, call_service>>
    /\ UNCHANGED <<conn, active_connections, proactive_tasks, monitors, voice_state, inputs>>

ScriptCall(name) == ScriptCallReturning(name, NoRet)

\* await agent._handle_agentic_emergency_response(mock_websocket, user_input, "fire")
ScriptEmergencyResponse ==
    /\ ScriptCall("response")
    /\ \E reply \in LLMOutcomes : EmergencyTurn(MockWs, reply, << >>)

\* agent.conversation_state.escalate()
ScriptEscalate ==
    /\ ScriptCall("escalate")
    /\ conversation_state' = escalate(conversation_state)
    /\ sent' = << >>
    /\ UNCHANGED <<tasks, escalation_tasks, initiate_calls, call_monitors>>

\* await agent._escalation_timer(mock_websocket, "test_client", ...): the
\* coroutine runs in the script's own task and is stored in no registry
ScriptRunTimer ==
    /\ ScriptCall("timer")
    /\ tasks' = Append(tasks, NewTimer(MockWs, TestClient))
    /\ sent' = << >>
    /\ UNCHANGED <<conversation_state, escalation_tasks, initiate_calls, call_monitors>>

ScriptNext ==
    \/ ScriptEmergencyResponse
    \/ ScriptEscalate
    \/ ScriptRunTimer
    \/ \E t \in DOMAIN tasks : TimerFire(t)
    \/ \E t \in DOMAIN tasks : TimerContinue(t)
    \/ \E t \in DOMAIN tasks : SimFinish(t)

ScriptSpec == Init /\ [][ScriptNext]_vars

\* ------------------------------------------- scripts driving the protocol
\* test_agentic_voice_agent.py and test_llm_emergency.py also call the
\* methods of AgenticConversationState that the agent itself never calls
EmergencyTypes == {"fire", "medical", "danger", "general"}

\* state.start_emergency_protocol(emergency_type)
ScriptStartProtocol(emergency_type) ==
    /\ ScriptCall("start_protocol")
    /\ conversation_state' = start_emergency_protocol(conversation_state, emergency_type)
    /\ sent' = << >>
    /\ UNCHANGED <<tasks, escalation_tasks, initiate_calls, call_monitors>>

\* state.confirm_step()
ScriptConfirmStep ==
    /\ ScriptCall("confirm_step")
    /\ conversation_state' = confirm_step(conversation_state)
    /\ sent' = << >>
    /\ UNCHANGED <<tasks, escalation_tasks, initiate_calls, call_monitors>>

ProtocolNext ==
    \/ Len(calls) < MaxProtocolCalls /\ ScriptEmergencyResponse
    \/ Len(calls) < MaxProtocolCalls /\ ScriptEscalate
    \/ Len(calls) < MaxProtocolCalls /\ ScriptRunTimer
    \/ Len(calls) < MaxProtocolCalls /\ \E type \in EmergencyTypes : ScriptStartProtocol(type)
    \/ Len(calls) < MaxProtocolCalls /\ ScriptConfirmStep
    \/ \E t \in DOMAIN tasks : TimerFire(t)
    \/ \E t \in DOMAIN tasks : TimerContinue(t)
    \/ \E t \in DOMAIN tasks : SimFinish(t)
    \/ \E t \in DOMAIN tasks : StartCallMonitor(t)

ProtocolSpec == Init /\ [][ProtocolNext]_vars

\* ------------------------------- unit tests of AgenticConversationState
\* test_agentic_voice_agent.py works on a bare AgenticConversationState: it
\* calls its methods and assigns its fields, with no agent and no timer
\* self.state.pending_confirmation = True; self.state.confirmation_timeout = 10
ScriptSetPending ==
    /\ ScriptCall("set_pending")
    /\ conversation_state' = [conversation_state EXCEPT !.pending_confirmation = TRUE,
                                                        !.confirmation_timeout = 10]
    /\ sent' = << >>
    /\ UNCHANGED <<tasks, escalation_tasks, initiate_calls, call_monitors>>

\* the steps the tests assign to current_step
AssignedSteps == 2..4

\* self.state.current_step = n
ScriptSetCurrentStep(n) ==
    /\ ScriptCall("set_current_step")
    /\ conversation_state' = [conversation_state EXCEPT !.current_step = n]
    /\ sent' = << >>
    /\ UNCHANGED <<tasks, escalation_tasks, initiate_calls, call_monitors>>

\* step = self.state.get_next_step()
ScriptGetNextStep ==
    /\ ScriptCallReturning("get_next_step", <<"get_next_step", get_next_step(conversation_state)>>)
    /\ sent' = << >>
    /\ UNCHANGED <<conversation_state, tasks, escalation_tasks, initiate_calls, call_monitors>>

UnitNext ==
    \/ Len(calls) < MaxProtocolCalls /\ \E type \in EmergencyTypes : ScriptStartProtocol(type)
    \/ Len(calls) < MaxProtocolCalls /\ ScriptConfirmStep
    \/ Len(calls) < MaxProtocolCalls /\ ScriptEscalate
    \/ Len(calls) < MaxProtocolCalls /\ ScriptSetPending
    \/ Len(calls) < MaxProtocolCalls /\ \E n \in AssignedSteps : ScriptSetCurrentStep(n)
    \/ Len(calls) < MaxProtocolCalls /\ ScriptGetNextStep

UnitSpec == Init /\ [][UnitNext]_vars

\* ------------------------------------------- scripts calling the text tests
\* test_llm_emergency.py calls the two keyword functions on a fresh agent;
\* neither reads nor writes any field of the agent.  The text the script
\* holds is op.arg, chosen when the script starts.
TextInit ==
    /\ conn = [w \in Ws |-> [st |-> "new", client_id |-> Unknown]]
    /\ active_connections = << >>
    /\ proactive_tasks = << >>
    /\ escalation_tasks = << >>
    /\ monitors = [w \in Ws |-> "none"]
    /\ tasks = << >>
    /\ conversation_state = NewConversationState
    /\ voice_state = NewVoiceState
    /\ initiate_calls = [w \in Ws \cup {MockWs} |-> 0]
    /\ call_monitors = [w \in Ws \cup {MockWs} |-> 0]
    /\ inputs = 0
    /\ calls = << >>
    /\ polling = NewPolling
    /\ pipeline = NewPipeline
    /\ detector = NoDetector
    /\ call_service = NewCallService
    /\ ret = NoRet
    /\ sent = << >>
    /\ \E text \in Corpus : op = [name |-> "init", ws |-> MockWs, arg |-> text]

\* agent._detect_emergency(text)
ScriptDetectEmergency ==
    /\ ret' = <<"detect_emergency", op.arg, detect_emergency(op.arg)>>
    /\ op' = [op EXCEPT !.name = "detect_emergency"]
    /\ sent' = << >>
    /\ UNCHANGED <<conn, active_connections, proactive_tasks, escalation_tasks, monitors,
                   tasks, conversation_state, voice_state, initiate_calls, call_monitors,
                   inputs, calls, polling,
                   pipeline, detector, call_service>>

\* agent._is_positive_confirmation(word)
ScriptIsPositiveConfirmation ==
    /\ ret' = <<"is_positive_confirmation", op.arg, is_positive_confirmation(op.arg)>>
    /\ op' = [op EXCEPT !.name = "is_positive_confirmation"]
    /\ sent' = << >>
    /\ UNCHANGED <<conn, active_connections, proactive_tasks, escalation_tasks, monitors,
                   tasks, conversation_state, voice_state, initiate_calls, call_monitors,
                   inputs, calls, polling,
                   pipeline, detector, call_service>>

TextNext ==
    \/ ScriptDetectEmergency
    \/ ScriptIsPositiveConfirmation

TextSpec == TextInit /\ [][TextNext]_vars

\* ------------------------------------------------------ call-status polling
\* call.status values of the provider, and "answered", which the monitor tests
Statuses ==
    {"queued", "ringing", "in-progress", "answered", "completed", "failed", "busy",
     "no-answer", "canceled"}

\* get_call_status returns the status, or None without a client or when the
\* fetch raises
PollResults == Statuses \cup {"none"}

\* the statuses on which _monitor_emergency_call sends a message and breaks
MonitorBreaks == {"answered", "failed", "completed"}

\* the statuses on which wait_for_call_completion returns
WaitReturns == {"completed", "busy", "failed", "no-answer", "canceled"}

\* a loop that makes one round more than its range
MonitorExhaustedLate(i) == i > MaxPolls

\* for i in range(24) is over after round i
MonitorExhausted(i) == i >= MaxPolls

\* while elapsed_time < timeout
WaitContinues(elapsed_time, timeout) == elapsed_time < timeout

\* asyncio.create_task(self._monitor_emergency_call(call_id, websocket))
MonitorCallStart ==
    /\ polling.mon.st = "idle"
    /\ polling' = [polling EXCEPT !.mon.st = "sleeping"]
    /\ sent' = << >>
    /\ op' = [name |-> "call_monitor", ws |-> MockWs, arg |-> EmptyText]
    /\ UNCHANGED <<pipeline, detector, call_service>>
    /\ ret' = NoRet
    /\ UNCHANGED <<conn, active_connections, proactive_tasks, escalation_tasks, monitors,
                   tasks, conversation_state, voice_state, initiate_calls,
                   call_monitors, inputs, calls>>

\* one round of the loop of _monitor_emergency_call: the five-second sleep
\* ends, get_call_status returns result, and the status is handled
MonitorCallPoll(result) ==
    LET mon == polling.mon
        i == mon.i + 1
        break == result \in MonitorBreaks
    IN  /\ mon.st = "sleeping"
        /\ polling' =
              [polling EXCEPT !.mon =
                  [st |-> IF break \/ MonitorExhausted(i) THEN "done" ELSE "sleeping",
                   i |-> i,
                   polls |-> mon.polls + 1,
                   updates |-> mon.updates + (IF break THEN 1 ELSE 0),
                   last |-> result,
                   terminal_seen |-> mon.terminal_seen
                                       \/ result \in {"answered", "completed", "failed",
                                                      "busy", "no-answer"}]]
        /\ sent' = IF break THEN Frames(MockWs, <<"call_" \o result>>) ELSE << >>
        /\ op' = [name |-> "call_poll", ws |-> MockWs, arg |-> EmptyText]
        /\ UNCHANGED <<pipeline, detector, call_service>>
        /\ ret' = NoRet
        /\ UNCHANGED <<conn, active_connections, proactive_tasks, escalation_tasks,
                       monitors, tasks, conversation_state, voice_state, initiate_calls,
                       call_monitors, inputs, calls>>

\* wait_for_call_completion(call_id, timeout) up to its first sleep; without
\* a client it returns None at once, and with a timeout of 0 the loop is
\* skipped and the final read is the only one
WaitStart(timeout, client) ==
    /\ polling.wait.st = "idle"
    /\ IF ~client
       THEN polling' = [polling EXCEPT !.wait =
                           [st |-> "done", timeout |-> timeout, elapsed_time |-> 0,
                            polls |-> 0, ret |-> "none"]]
       ELSE IF WaitContinues(0, timeout)
       THEN polling' = [polling EXCEPT !.wait =
                           [st |-> "sleeping", timeout |-> timeout, elapsed_time |-> 0,
                            polls |-> 0, ret |-> "none"]]
       ELSE \E final \in PollResults :
               polling' = [polling EXCEPT !.wait =
                              [st |-> "done", timeout |-> timeout, elapsed_time |-> 0,
                               polls |-> 1, ret |-> final]]
    /\ sent' = << >>
    /\ op' = [name |-> "wait_start", ws |-> MockWs, arg |-> EmptyText]
    /\ UNCHANGED <<pipeline, detector, call_service>>
    /\ ret' = NoRet
    /\ UNCHANGED <<conn, active_connections, proactive_tasks, escalation_tasks, monitors,
                   tasks, conversation_state, voice_state, initiate_calls,
                   call_monitors, inputs, calls>>

\* one round of the loop of wait_for_call_completion: the sleep ends, the
\* elapsed time advances and the status is read; when the loop condition
\* fails afterwards the final read is made and returned
WaitPoll(result) ==
    LET wait == polling.wait
        elapsed_time == wait.elapsed_time + CheckInterval
    IN  /\ wait.st = "sleeping"
        /\ IF result \in WaitReturns
           THEN polling' = [polling EXCEPT !.wait =
                               [wait EXCEPT !.st = "done", !.elapsed_time = elapsed_time,
                                            !.polls = @ + 1, !.ret = result]]
           ELSE IF WaitContinues(elapsed_time, wait.timeout)
           THEN polling' = [polling EXCEPT !.wait =
                               [wait EXCEPT !.elapsed_time = elapsed_time, !.polls = @ + 1]]
           ELSE \E final \in PollResults :
                   polling' = [polling EXCEPT !.wait =
                                  [wait EXCEPT !.st = "done", !.elapsed_time = elapsed_time,
                                               !.polls = @ + 2, !.ret = final]]
        /\ sent' = << >>
        /\ op' = [name |-> "wait_poll", ws |-> MockWs, arg |-> EmptyText]
        /\ UNCHANGED <<pipeline, detector, call_service>>
        /\ ret' = NoRet
        /\ UNCHANGED <<conn, active_connections, proactive_tasks, escalation_tasks,
                       monitors, tasks, conversation_state, voice_state, initiate_calls,
                       call_monitors, inputs, calls>>

PollNext ==
    \/ MonitorCallStart
    \/ \E result \in PollResults : MonitorCallPoll(result)
    \/ \E timeout \in 0..MaxTimeout, client \in BOOLEAN : WaitStart(timeout, client)
    \/ \E result \in PollResults : WaitPoll(result)

PollSpec == Init /\ [][PollNext]_vars

\* the event loop resumes a task whose sleep has ended
PollFairSpec ==
    /\ PollSpec
    /\ WF_vars(\E result \in PollResults : MonitorCallPoll(result))
    /\ WF_vars(\E result \in PollResults : WaitPoll(result))

\* --------------------------------------------- the monitor on any voice state
\* voice_state is a plain attribute of the agent; the tests of the monitor
\* are exercised for every value of the three fields they read.  The
\* escalation timers read and write nothing the monitor reads (voice_state,
\* the connections, the monitor tasks), so their steps are left out here.
\* A monitor outlives its connection when its client id was reused, which is
\* how a poll meets a websocket that no longer accepts frames.
VoiceStates ==
    [silence_count : 0..MaxSilence, emergency_detected : BOOLEAN,
     conversation_stage : {"standby", "active", "emergency"}]

MonitorInit ==
    /\ conn = [w \in Ws |-> [st |-> "new", client_id |-> Unknown]]
    /\ active_connections = << >>
    /\ proactive_tasks = << >>
    /\ escalation_tasks = << >>
    /\ monitors = [w \in Ws |-> "none"]
    /\ tasks = << >>
    /\ conversation_state = NewConversationState
    /\ voice_state \in VoiceStates
    /\ initiate_calls = [w \in Ws \cup {MockWs} |-> 0]
    /\ call_monitors = [w \in Ws \cup {MockWs} |-> 0]
    /\ inputs = 0
    /\ calls = << >>
    /\ polling = NewPolling
    /\ pipeline = NewPipeline
    /\ detector = NoDetector
    /\ call_service = NewCallService
    /\ ret = NoRet
    /\ sent = << >>
    /\ op = [name |-> "init", ws |-> MockWs, arg |-> EmptyText]

MonitorNext ==
    \/ Connect
    \/ \E w \in Ws : Disconnect(w)
    \/ \E w \in Ws, text \in Texts : HandleText(w, text)
    \/ \E w \in Ws : MonitorPoll(w)
    \/ \E w \in Ws : MonitorWarn(w)

MonitorSpec == MonitorInit /\ [][MonitorNext]_vars

\* ------------------------------------------- the server and its monitors
\* the server as it starts (voice_state fresh), with the proactive monitors
\* polling between the handlers' steps.  The escalation timers are left out
\* as in MonitorSpec: they neither read nor write voice_state or monitors.
\* _take_emergency_action past its first sleep is entered only from a state
\* in Warned, which only MonitorPoll produces.
ServerMonitorNext ==
    \/ Connect
    \/ \E w \in Ws : ConnectionLost(w)
    \/ \E w \in Ws : Disconnect(w)
    \/ \E w \in Ws, text \in Texts : HandleText(w, text)
    \/ \E w \in Ws, text \in Texts : HandleAudio(w, text)
    \/ \E w \in Ws, kind \in {"ping", "unknown", "malformed"} : HandleOther(w, kind)
    \/ \E w \in Ws : MonitorPoll(w)

ServerMonitorSpec == Init /\ [][ServerMonitorNext]_vars

\* the event loop resumes a monitor whose PROACTIVE_CHECK_INTERVAL sleep has ended
ServerMonitorFairSpec ==
    /\ ServerMonitorSpec
    /\ \A w \in Ws : WF_vars(MonitorPoll(w))

\* ------------------------------------------------- the pipecat pipeline
\* a step of the pipecat components: the agent's variables are not theirs
PipecatStep(name) ==
    /\ op' = [name |-> name, ws |-> MockWs, arg |-> EmptyText]
    /\ ret' = NoRet
    /\ sent' = << >>
    /\ UNCHANGED <<conn, active_connections, proactive_tasks, escalation_tasks, monitors,
                   tasks, conversation_state, voice_state, initiate_calls, call_monitors,
                   inputs, calls, polling>>

\* ConversationStateManager.should_timeout and should_escalate: the elapsed
\* time must be truthy (not None, not 0) and beyond the threshold
should_timeout(p) == p.idle # NoActivity /\ p.idle # 0 /\ p.idle > TimeoutThreshold

should_escalate(p) == p.idle # NoActivity /\ p.idle # 0 /\ p.idle > EscalationThreshold

\* ConversationStateManager.escalate_urgency
escalate_urgency(p) ==
    [p EXCEPT !.current_urgency = IF @ = "normal" THEN "urgent" ELSE "emergency",
              !.current_state = "escalating"]

\* the "sentence" event: on_sentence -> add_user_input -> update_user_activity
PipeSentence ==
    /\ PipecatStep("on_sentence")
    /\ pipeline' = [pipeline EXCEPT !.current_state = "listening", !.idle = 0,
                                    !.awaiting = TRUE, !.handled = << >>]
    /\ UNCHANGED <<detector, call_service>>

\* the "llm_response" event for a sentence: on_llm_response ->
\* update_ai_response(response), whose urgency argument defaults to NORMAL
PipeResponse ==
    /\ pipeline.awaiting
    /\ PipecatStep("on_llm_response")
    /\ pipeline' = [pipeline EXCEPT !.current_state = "speaking",
                                    !.current_urgency = "normal", !.awaiting = FALSE]
    /\ UNCHANGED <<detector, call_service>>

\* seconds from one test of _monitor_conversation to the next: the sleep of
\* one second, and the time speech synthesis and playback block the loop
PollGaps == 1..2

\* one round of _monitor_conversation: _handle_timeout if should_timeout
\* (message, escalate_urgency, on_escalation), then the sleep.
\* _handle_escalation, run if should_escalate, only invokes a callback.
PipePoll(gap) ==
    /\ pipeline.idle # NoActivity => pipeline.idle + gap <= MaxIdle
    /\ PipecatStep("pipe_poll")
    /\ LET p1 == IF should_timeout(pipeline)
                 THEN [escalate_urgency(pipeline) EXCEPT
                          !.handled = Append(@, pipeline.current_urgency)]
                 ELSE pipeline
       IN  pipeline' = [p1 EXCEPT !.idle = IF @ = NoActivity THEN @ ELSE @ + gap]
    /\ UNCHANGED <<detector, call_service>>

PipeNext ==
    \/ PipeSentence
    \/ PipeResponse
    \/ \E gap \in PollGaps : PipePoll(gap)

PipeSpec == Init /\ [][PipeNext]_vars

\* ------------------------------------------------- the response detector
\* ResponseDetector(timeout_threshold, escalation_threshold, emergency_threshold).
\* Times are counted in polls of _monitor_response (half a second);
\* elapsed is the time since last_ai_speech_time.  monitoring_task is an
\* index into tasks (0: None); fired lists the callbacks invoked since the
\* last start_monitoring.
ResponseDetector(t1, t2, t3) ==
    [timeout_threshold |-> t1, escalation_threshold |-> t2, emergency_threshold |-> t3,
     current_status |-> "waiting", is_monitoring |-> FALSE, monitoring_task |-> 0,
     elapsed |-> 0, tasks |-> << >>, fired |-> << >>]

\* Task.cancel(): a task that has not finished is thrown CancelledError when
\* the event loop next resumes it
cancel_task(tk, i) ==
    IF i # 0 /\ tk[i] = "running" THEN [tk EXCEPT ![i] = "cancelling"] ELSE tk

\* ResponseDetector.start_monitoring(ai_speech_time), past polls ago
start_monitoring(d, past) ==
    [d EXCEPT !.elapsed = past, !.current_status = "waiting", !.is_monitoring = TRUE,
              !.tasks = Append(cancel_task(@, d.monitoring_task), "running"),
              !.monitoring_task = Len(d.tasks) + 1,
              !.fired = << >>]

\* a stop that dropped the task without cancelling it
stop_monitoring_dropping_task(d) ==
    [d EXCEPT !.is_monitoring = FALSE, !.monitoring_task = 0]

\* ResponseDetector.stop_monitoring
stop_monitoring(d) ==
    [d EXCEPT !.is_monitoring = FALSE,
              !.tasks = cancel_task(@, d.monitoring_task),
              !.monitoring_task = 0]

\* ResponseDetector.user_responded
user_responded(d) ==
    stop_monitoring([d EXCEPT !.current_status = "responded"])

\* a monitor that tested the thresholds without the status
due_ignoring_status(d) ==
    IF d.elapsed >= d.timeout_threshold /\ d.current_status = "waiting"
    THEN "on_timeout"
    ELSE IF d.elapsed >= d.escalation_threshold
    THEN "on_escalation"
    ELSE IF d.elapsed >= d.emergency_threshold
    THEN "on_emergency"
    ELSE "none"

\* the if / elif / elif of _monitor_response: the handler this round runs
due(d) ==
    IF d.elapsed >= d.timeout_threshold /\ d.current_status = "waiting"
    THEN "on_timeout"
    ELSE IF d.elapsed >= d.escalation_threshold /\ d.current_status = "timeout"
    THEN "on_escalation"
    ELSE IF d.elapsed >= d.emergency_threshold /\ d.current_status = "escalating"
    THEN "on_emergency"
    ELSE "none"

\* _handle_timeout, _handle_escalation and _handle_emergency: the status
\* each sets; the callback is then invoked
handled_status(callback) ==
    IF callback = "on_timeout" THEN "timeout" ELSE "escalating"

\* offsets of the ai_speech_time a script hands to start_monitoring
PastTimes == 0..1

DetectorInit ==
    /\ conn = [w \in Ws |-> [st |-> "new", client_id |-> Unknown]]
    /\ active_connections = << >>
    /\ proactive_tasks = << >>
    /\ escalation_tasks = << >>
    /\ monitors = [w \in Ws |-> "none"]
    /\ tasks = << >>
    /\ conversation_state = NewConversationState
    /\ voice_state = NewVoiceState
    /\ initiate_calls = [w \in Ws \cup {MockWs} |-> 0]
    /\ call_monitors = [w \in Ws \cup {MockWs} |-> 0]
    /\ inputs = 0
    /\ calls = << >>
    /\ polling = NewPolling
    /\ pipeline = NewPipeline
    /\ \E t1, t2, t3 \in 1..MaxThreshold : detector = ResponseDetector(t1, t2, t3)
    /\ call_service = NewCallService
    /\ ret = NoRet
    /\ sent = << >>
    /\ op = [name |-> "init", ws |-> MockWs, arg |-> EmptyText]

\* a step of or on the detector
DetectorStep(name) ==
    /\ op' = [name |-> name, ws |-> MockWs, arg |-> EmptyText]
    /\ sent' = << >>
    /\ UNCHANGED <<conn, active_connections, proactive_tasks, escalation_tasks, monitors,
                   tasks, conversation_state, voice_state, initiate_calls, call_monitors,
                   inputs, calls, polling, pipeline, call_service>>

\* detector.start_monitoring(ai_speech_time)
DetectorStart(past) ==
    /\ Len(detector.tasks) < MaxEpisodes
    /\ DetectorStep("start_monitoring")
    /\ ret' = NoRet
    /\ detector' = start_monitoring(detector, past)

\* detector.stop_monitoring()
DetectorStop ==
    /\ op.name # "stop_monitoring"
    /\ DetectorStep("stop_monitoring")
    /\ ret' = NoRet
    /\ detector' = stop_monitoring(detector)

\* detector.user_responded()
DetectorUserResponded ==
    /\ op.name # "user_responded"
    /\ DetectorStep("user_responded")
    /\ ret' = NoRet
    /\ detector' = user_responded(detector)

\* the event loop resumes task i of _monitor_response.  A cancelled task
\* ends at once; a task that finds is_monitoring false ends; otherwise one
\* round runs: the handler that is due, its callback, then the sleep.
DetectorTask(i) ==
    /\ i \in DOMAIN detector.tasks
    /\ detector.tasks[i] \in {"running", "cancelling"}
    /\ DetectorStep("monitor_response")
    /\ IF detector.tasks[i] = "cancelling" \/ ~detector.is_monitoring
       THEN /\ detector' = [detector EXCEPT !.tasks[i] = "done"]
            /\ ret' = NoRet
       ELSE /\ detector.elapsed < MaxElapsed
            /\ LET callback == due(detector) IN
               IF callback = "none"
               THEN /\ detector' = [detector EXCEPT !.elapsed = @ + 1]
                    /\ ret' = NoRet
               ELSE /\ detector' = [detector EXCEPT
                                       !.current_status = handled_status(callback),
                                       !.fired = Append(@, callback),
                                       !.elapsed = @ + 1]
                    /\ ret' = <<callback, detector.elapsed>>

DetectorNext ==
    \/ \E past \in PastTimes : DetectorStart(past)
    \/ DetectorStop
    \/ DetectorUserResponded
    \/ \E i \in 1..MaxEpisodes : DetectorTask(i)

DetectorSpec == DetectorInit /\ [][DetectorNext]_vars

\* ------------------------------------------------ the active-call table
\* seconds the clock advances between two steps that read it
ClockStep == 1800

\* EmergencyCallData(): the record is stamped when it is constructed;
\* initiate_emergency_call stores it under the sid Twilio gave the call
store_call(c) ==
    LET sid == c.created + 1 IN
    [c EXCEPT !.created = sid,
              !.active_calls = [s \in DOMAIN @ \cup {sid} |->
                                   IF s = sid THEN c.now ELSE @[s]]]

\* EmergencyCallService.cleanup_old_calls
cleanup_old_calls(c) ==
    [c EXCEPT !.active_calls =
        [s \in {x \in DOMAIN @ : ~(c.now - @[x] > CleanupAge)} |-> @[s]]]

\* a step of or on the call service
CallServiceStep(name) ==
    /\ op' = [name |-> name, ws |-> MockWs, arg |-> EmptyText]
    /\ sent' = << >>
    /\ UNCHANGED <<conn, active_connections, proactive_tasks, escalation_tasks, monitors,
                   tasks, conversation_state, voice_state, initiate_calls, call_monitors,
                   inputs, calls, polling, pipeline, detector>>

\* initiate_emergency_call(EmergencyCallData(...)) with a call Twilio accepts
CallInitiate ==
    /\ call_service.created < MaxStored
    /\ CallServiceStep("initiate_emergency_call")
    /\ call_service' = store_call(call_service)
    /\ ret' = <<"sid", call_service.created + 1>>

\* time passes
CallTick ==
    /\ call_service.now < MaxClock * ClockStep
    /\ CallServiceStep("tick")
    /\ call_service' = [call_service EXCEPT !.now = @ + ClockStep]
    /\ ret' = NoRet

\* a caller outside the program awaits cleanup_old_calls(): nothing in the
\* program calls it
CallCleanup ==
    /\ op.name # "cleanup_old_calls"
    /\ CallServiceStep("cleanup_old_calls")
    /\ call_service' = cleanup_old_calls(call_service)
    /\ ret' = <<"removed", DOMAIN call_service.active_calls
                             \ DOMAIN call_service'.active_calls>>

CallServiceNext ==
    \/ CallInitiate
    \/ CallTick
    \/ CallCleanup

CallServiceSpec == Init /\ [][CallServiceNext]_vars

\* the program as it runs: calls are placed and time passes, and no step of
\* the program is a cleanup
CallServiceFairSpec ==
    CallServiceSpec /\ WF_vars(CallTick) /\ WF_vars(CallInitiate)

\* ================================================================ properties

\* the escalation state a session's handlers and timers read and write: the
\* agent holds one AgenticConversationState, shared by every connection
session_state(w) ==
    [escalation_level |-> conversation_state.escalation_level,
     current_step |-> conversation_state.current_step,
     pending_confirmation |-> conversation_state.pending_confirmation]

\* the live timer tasks created for websocket w
LiveTimers(w) == {t \in DOMAIN tasks : IsLive(tasks[t]) /\ tasks[t].ws = w}

AllLiveTimers == {t \in DOMAIN tasks : IsLive(tasks[t])}

\* C1: the emergency call is initiated at most once per escalation episode.
\* The server never resets escalation_level, so a connection's whole life is
\* one episode: no websocket has initiate invoked for it twice.
C1_InitiateAtMostOnce == \A w \in Ws : initiate_calls[w] <= 1

\* C2: while a session has an armed timer, a pending confirmation and an open
\* connection, the timer keeps firing until the emergency call is initiated
\* for that session (or the connection closes).
C2_PendingLeadsToCall ==
    \A w \in Ws :
        (conn[w].st = "open" /\ conversation_state.pending_confirmation
            /\ LiveTimers(w) # {})
        ~> (conn[w].st # "open" \/ initiate_calls[w] >= 1)

\* C3: at every instant a session has at most one live escalation timer.
C3_AtMostOneLiveTimer == \A w \in Ws : Cardinality(LiveTimers(w)) <= 1

\* C4: while pending_confirmation is true exactly one live escalation timer
\* is armed.
C4_PendingHasOneTimer ==
    conversation_state.pending_confirmation => Cardinality(AllLiveTimers) = 1

\* C5: a step taken for one session (its message handler or its timer) leaves
\* the escalation state of every other connected session unchanged.
C5_SessionsIsolated ==
    [][\A b \in Ws :
          (conn[b].st = "open" /\ conn'[b].st = "open" /\ op'.ws # b
              /\ op'.name \in {"text", "audio", "fire", "continue"})
          => session_state(b)' = session_state(b)]_vars

\* C6: a positive confirmation arriving as text while a confirmation is
\* pending runs confirm_step (current_step + 1, the old step appended to
\* steps_completed), clears pending_confirmation and cancels the session's
\* outstanding timer.
C6_ConfirmationAdvances ==
    [][(op'.name = "text" /\ PositiveTable[op'.arg] /\ ~DetectTable[op'.arg][1]
           /\ inputs' = inputs + 1 /\ conversation_state.pending_confirmation)
       => /\ conversation_state'.current_step = conversation_state.current_step + 1
          /\ conversation_state'.steps_completed =
                Append(conversation_state.steps_completed, conversation_state.current_step)
          /\ ~conversation_state'.pending_confirmation
          /\ \A t \in DOMAIN tasks' : tasks'[t].ws = op'.ws => ~IsLive(tasks'[t])]_vars

\* C7: a timer cancelled before its delay elapsed never runs its fire
\* handler: it never escalates and never sends its escalation message.
C7_CancelledNeverFires == \A t \in DOMAIN tasks : tasks[t].early => ~tasks[t].fired

\* a timer was cancelled in its sleep while another timer did fire
C7_Witness ==
    \E t, u \in DOMAIN tasks : tasks[t].early /\ tasks[t].st = "cancelled" /\ tasks[u].fired

\* C8: the fire text as the first input records emergency_type fire, sends a
\* reply, sets pending_confirmation and arms a timer; the first timer fire
\* after it, with no further input, makes escalation_level 1 and sends a
\* second message.
C8_FireScenario ==
    /\ (inputs = 1 /\ op.name = "text" /\ op.arg = FireText)
       => /\ conversation_state.emergency_type = "fire"
          /\ conversation_state.pending_confirmation
          /\ LiveTimers(op.ws) # {}
          /\ sent # << >>
    /\ (inputs = 1 /\ op.name = "fire" /\ Len(tasks) = 1)
       => /\ conversation_state.escalation_level = 1
          /\ sent # << >>

\* C9: after an emergency response and three direct escalate() calls, the
\* next run of the timer fire handler initiates the emergency call exactly
\* once and arms no further timer.
C9_LevelThreeCallsOnce ==
    (calls = <<"response", "escalate", "escalate", "escalate", "timer">> /\ AllLiveTimers = {})
    => initiate_calls[MockWs] = 1

\* C10: once the fallback has started for a session (initiate returned None
\* or raised), the session receives the second message of the simulated call.
C10_FallbackCompletes ==
    \A w \in Ws :
        (conn[w].st = "open" /\ \E t \in DOMAIN tasks : tasks[t].ws = w /\ tasks[t].st = "simulating")
        ~> (conn[w].st # "open" \/ \E i \in DOMAIN sent : sent[i] = [to |-> w, tag |-> "sim_done"])

\* C11: a poll of the proactive monitor made while conversation_stage is
\* standby sends no check-in, whatever silence_count and emergency_detected are.
C11_NoCheckinInStandby ==
    (op.name = "poll" /\ voice_state.conversation_stage = "standby")
    => \A i \in DOMAIN sent : sent[i].tag \notin {"checkin", "checkin_audio"}

\* a poll in standby found silence and no emergency, and sent nothing
C11_Witness ==
    /\ op.name = "poll"
    /\ voice_state.conversation_stage = "standby"
    /\ voice_state.silence_count > 0
    /\ ~voice_state.emergency_detected
    /\ conn[op.ws].st = "open"
    /\ sent = << >>

\* C12: once the handler of a connection has ended, its proactive monitor is
\* cancelled and no escalation timer created for it is live, so nothing
\* timer-driven happens for it afterwards.
C12_TeardownCancels ==
    \A w \in Ws :
        conn[w].st = "closed" => (monitors[w] = "cancelled" /\ LiveTimers(w) = {})

\* C13: no two connections whose handlers are running have the same client id.
C13_UniqueIds ==
    \A v, w \in Ws :
        (v # w /\ conn[v].st \in {"open", "lost"} /\ conn[w].st \in {"open", "lost"})
        => conn[v].client_id # conn[w].client_id

\* C14: when a timer's escalation reply cannot be sent (the connection no
\* longer accepts frames, the handler has not ended yet), the failure tears
\* the session down: the monitor is cancelled, no timer of the session stays
\* live and no emergency call is started for it.
C14_SendFailureTearsDown ==
    [][(op'.name = "fire" /\ conn[op'.ws].st = "lost"
           /\ conversation_state.pending_confirmation)
       => /\ monitors'[op'.ws] = "cancelled"
          /\ \A t \in DOMAIN tasks' : tasks'[t].ws = op'.ws => ~IsLive(tasks'[t])
          /\ initiate_calls'[op'.ws] = initiate_calls[op'.ws]]_vars

\* C15: a frame of unknown type and a frame that is not decodable JSON send
\* nothing and change no connection, registry, timer, monitor, escalation or
\* voice state; the connection stays open.
C15_UnknownFrameDropped ==
    [][(op'.name \in {"unknown", "malformed"})
       => /\ sent' = << >>
          /\ conn'[op'.ws].st = "open"
          /\ UNCHANGED <<conn, active_connections, proactive_tasks, escalation_tasks,
                         monitors, tasks, conversation_state, voice_state,
                         initiate_calls, call_monitors>>]_vars

\* an unknown or undecodable frame arrived while a confirmation was pending
\* and a timer was armed for the connection, and both are still there
C15_Witness ==
    /\ op.name \in {"unknown", "malformed"}
    /\ conn[op.ws].st = "open"
    /\ conversation_state.pending_confirmation
    /\ \E t \in LiveTimers(op.ws) : tasks[t].st = "sleeping"

\* the statuses the session engine treats as the end of a call
TerminalStatuses == {"answered", "completed", "failed", "busy", "no-answer"}

\* C16: the first poll of the call monitor that returns answered, completed,
\* failed, busy or no-answer sends exactly one final update and ends the
\* polling.
C16_TerminalStatusEndsPolling ==
    [][(op'.name = "call_poll" /\ polling'.mon.polls = polling.mon.polls + 1
           /\ polling'.mon.last \in TerminalStatuses)
       => /\ polling'.mon.updates = polling.mon.updates + 1
          /\ Len(sent') = 1
          /\ polling'.mon.st = "done"]_vars

\* C17: a call monitor that used up its 24 polls without a terminal status
\* has sent a timeout notice with its last round.
C17_TimeoutNotice ==
    (op.name = "call_poll" /\ polling.mon.st = "done" /\ polling.mon.polls = MaxPolls
        /\ ~polling.mon.terminal_seen)
    => \E i \in DOMAIN sent : sent[i].tag = "call_timeout"

\* C18: the call monitor makes at most 24 polls, wait_for_call_completion at
\* most ceil(timeout / 2) polls and one final read, and both loops end
\* whatever the provider returns.
C18_PollingTerminates ==
    /\ [](/\ polling.mon.polls <= MaxPolls
          /\ polling.wait.polls
                <= (polling.wait.timeout + CheckInterval - 1) \div CheckInterval + 1)
    /\ (polling.mon.st = "sleeping" ~> polling.mon.st = "done")
    /\ (polling.wait.st = "sleeping" ~> polling.wait.st = "done")

\* both loops ran to their bound: 24 polls without a status, and every round
\* of the longest wait plus the final read
C18_Witness ==
    /\ polling.mon.st = "done" /\ polling.mon.polls = MaxPolls /\ polling.mon.updates = 0
    /\ polling.wait.st = "done" /\ polling.wait.timeout = MaxTimeout
    /\ polling.wait.polls = (MaxTimeout + CheckInterval - 1) \div CheckInterval + 1

\* C19: escalation_level is never negative and changes only by +1, in
\* escalate() called by the timer's fire handler or directly, or back to 0 in
\* start_emergency_protocol; no other step changes it.
C19_LevelMonotone ==
    [][/\ conversation_state'.escalation_level >= 0
       /\ conversation_state'.escalation_level # conversation_state.escalation_level
          => \/ /\ conversation_state'.escalation_level
                      = conversation_state.escalation_level + 1
                /\ op'.name \in {"fire", "escalate"}
             \/ /\ conversation_state'.escalation_level = 0
                /\ op'.name = "start_protocol"]_vars

\* a protocol was started after a timer had fired and escalate() had been
\* called directly, and the level is back at 0
C19_Witness ==
    /\ op.name = "start_protocol"
    /\ conversation_state.escalation_level = 0
    /\ \E t \in DOMAIN tasks : tasks[t].fired
    /\ \E i \in DOMAIN calls : calls[i] = "escalate"

\* C20: when the protocol has completed (the call was reported or the
\* simulated call finished) and when a connection's handler has ended,
\* escalation_level is 0 and pending_confirmation is false.
C20_ResetOnCompletion ==
    op.name \in {"sim_finish", "start_monitor", "disconnect"}
    => /\ conversation_state.escalation_level = 0
       /\ ~conversation_state.pending_confirmation

\* the keyword lists in the order _detect_emergency consults them
CategoryNames == <<"fire", "medical", "danger", "general">>

CategoryKeywords == <<fire_keywords, medical_keywords, danger_keywords, general_keywords>>

\* C21: _detect_emergency returns the first category, in the order fire,
\* medical, danger, general, one of whose keywords occurs as a substring of
\* the lower-cased text, and "no emergency" when no keyword occurs: of the
\* categories a text matches, the earliest in that order wins
C21_FirstCategoryWins ==
    ret[1] = "detect_emergency" =>
        LET text_lower == Lower(ret[2])
            matching == {k \in 1..4 : \E j \in 1..Len(CategoryKeywords[k]) :
                                         Contains(text_lower, CategoryKeywords[k][j])}
        IN  IF matching = {}
            THEN ret[3] = <<FALSE, "">>
            ELSE /\ ret[3][1] = TRUE
                 /\ \E k \in matching : /\ \A other \in matching : k <= other
                                        /\ ret[3][2] = CategoryNames[k]

\* a text in capitals that meets both the danger and the general list and
\* neither of the two lists before them
C21_Witness ==
    /\ ret[1] = "detect_emergency"
    /\ ret[2] # Lower(ret[2])
    /\ ~AnyKeyword(Lower(ret[2]), fire_keywords)
    /\ ~AnyKeyword(Lower(ret[2]), medical_keywords)
    /\ AnyKeyword(Lower(ret[2]), danger_keywords)
    /\ AnyKeyword(Lower(ret[2]), general_keywords)
    /\ ret[3] = <<TRUE, "danger">>

\* C23: _is_positive_confirmation is true exactly when the lower-cased text
\* contains one of the ten words as a substring, whatever the case of the
\* text as typed
C23_PositiveIffWordOccurs ==
    ret[1] = "is_positive_confirmation" =>
        (ret[3] <=> \E k \in 1..Len(positive_words) :
                       \E i \in 1..Len(ret[2]) :
                           /\ i + Len(positive_words[k]) - 1 <= Len(ret[2])
                           /\ \A j \in 1..Len(positive_words[k]) :
                                  LowerChar(ret[2][i + j - 1]) = positive_words[k][j])

\* a text with capitals that is accepted
C23_Witness ==
    /\ ret[1] = "is_positive_confirmation"
    /\ ret[2] # Lower(ret[2])
    /\ ret[3] = TRUE
\* C22: confirm_step() appends the current step to steps_completed, adds one
\* to current_step, clears pending_confirmation, sets confirmation_timeout
\* to 0 and leaves escalation_level and emergency_type as they were
C22_ConfirmStepAdvances ==
    [][op'.name = "confirm_step" =>
          /\ conversation_state'.steps_completed =
                 Append(conversation_state.steps_completed, conversation_state.current_step)
          /\ conversation_state'.current_step = conversation_state.current_step + 1
          /\ conversation_state'.pending_confirmation = FALSE
          /\ conversation_state'.confirmation_timeout = 0
          /\ conversation_state'.escalation_level = conversation_state.escalation_level
          /\ conversation_state'.emergency_type = conversation_state.emergency_type]_vars

\* test_confirm_step: start, a pending confirmation with timeout 10, confirm
C22_Witness ==
    /\ calls = <<"start_protocol", "set_pending", "confirm_step">>
    /\ conversation_state.current_step = 2
    /\ conversation_state.steps_completed = <<1>>
    /\ conversation_state.pending_confirmation = FALSE
    /\ conversation_state.confirmation_timeout = 0

\* C24: after start_emergency_protocol and two calls of escalate(),
\* current_step is 4
C24_TwoEscalationsReachStepFour ==
    calls = <<"start_protocol", "escalate", "escalate">> =>
        conversation_state.current_step = 4

\* the actions test_fire_protocol_steps and test_fire_protocol_complete_flow
\* expect at steps 1 to 4 of the fire protocol
FireSteps == <<"immediate_safety", "location_confirmation", "fire_details", "call_emergency">>

\* C25: with the fire protocol started, get_next_step returns the scripted
\* step of current_step: 1 immediate_safety (confirmation required, timeout
\* 10), 2 location_confirmation, 3 fire_details, 4 call_emergency
C25_FireStepsScripted ==
    (/\ op.name = "get_next_step"
     /\ conversation_state.emergency_type = "fire"
     /\ conversation_state.current_step \in 1..4) =>
        /\ ret[2].action = FireSteps[conversation_state.current_step]
        /\ conversation_state.current_step = 1 =>
               /\ "confirmation_required" \in DOMAIN ret[2]
               /\ "timeout" \in DOMAIN ret[2]
\* websocket w has had a timer expire on a pending confirmation and no call
\* has been made for it yet
MidEscalation(w) ==
    /\ conn[w].st = "open"
    /\ initiate_calls[w] = 0
    /\ \E t \in DOMAIN tasks : tasks[t].ws = w /\ tasks[t].fired

\* C26: a timer that expires on a pending confirmation raises the level by
\* one, and whatever arrives while its handler runs, a session that has had
\* a timer expire and has not yet had the call made for it has a live timer
\* (the one running the handler, or the one armed in its place)
C26_FiredTimerEndsArmedOrCalling ==
    [][/\ (op'.name = "fire" /\ conversation_state.pending_confirmation)
          => conversation_state'.escalation_level = conversation_state.escalation_level + 1
       /\ \A w \in Ws : MidEscalation(w)' => LiveTimers(w)' # {}]_vars
C28_NoTimerAfterCall ==
    [][\A w \in Ws :
          (/\ initiate_calls[w] >= 1
           /\ conversation_state.escalation_level >= TerminalLevel
           /\ conversation_state'.escalation_level >= TerminalLevel)
          => ~(Len(tasks') > Len(tasks) /\ tasks'[Len(tasks')].ws = w)]_vars

\* C29: the teardown of one session leaves every other session alone: the
\* entries, the monitor and the timers of the other connections are what they
\* were before, and the monitor of the session torn down has stopped
C29_TeardownTouchesOnlyOwn ==
    [][op'.name = "disconnect" =>
          /\ monitors'[op'.ws] = "cancelled"
          /\ \A b \in Ws \ {op'.ws} :
                 /\ monitors'[b] = monitors[b]
                 /\ \A t \in DOMAIN tasks : tasks[t].ws = b => tasks'[t] = tasks[t]
                 /\ conn[b].st \in {"open", "lost"} =>
                        \E k \in DOMAIN active_connections' :
                            active_connections'[k] = b]_vars
\* C30: silence_count is 0 in every state the agent reaches, so neither
\* branch of the proactive monitor is ever taken: no check-in and no warning
\* is sent and no monitor enters _take_emergency_action
C30_SilenceCountZero ==
    /\ voice_state.silence_count = 0
    /\ \A w \in Ws : monitors[w] \notin Warned
    /\ \A i \in DOMAIN sent : sent[i].tag \notin {"checkin", "checkin_audio", "warning1"}

\* a monitor polled an open session during a detected emergency and did nothing
C30_Witness ==
    /\ op.name = "poll"
    /\ conn[op.ws].st = "open"
    /\ voice_state.emergency_detected
    /\ voice_state.conversation_stage # "standby"
    /\ sent = << >>
\* C31: a session on which an emergency was reported and whose user then
\* stays silent has the emergency pathway of the proactive monitor invoked
\* for it (its first warning is sent), unless the connection ends first
C31_SilentEmergencyEscalates ==
    \A w \in Ws :
        (conn[w].st = "open" /\ monitors[w] = "running" /\ voice_state.emergency_detected)
        ~> (\/ conn[w].st # "open"
            \/ \E i \in DOMAIN sent : sent[i] = [to |-> w, tag |-> "warning1"])
TurnFailed ==
    /\ op.name \in {"text", "audio", "malformed"}
    /\ \/ ret = <<"llm", TRUE>>
       \/ \E i \in DOMAIN sent : sent[i].tag = "error"
       \/ op.name = "malformed"

\* C33: a failure met while one inbound frame is processed stays in that
\* turn: the connection is still open and registered, every proactive monitor
\* is in the state it was in, and when the language model raised the session
\* is sent the fixed fallback reply
C33_TurnFailureContained ==
    [][TurnFailed' =>
          /\ conn' = conn
          /\ conn'[op'.ws].st = "open"
          /\ monitors' = monitors
          /\ active_connections' = active_connections
          /\ proactive_tasks' = proactive_tasks
          /\ ret' = <<"llm", TRUE>> =>
                 \E i \in DOMAIN sent' : sent'[i] = [to |-> op'.ws, tag |-> "fallback"]]_vars

\* an audio turn in which the language model raised and speech synthesis
\* returned nothing, on a connection whose monitor is running
C33_Witness ==
    /\ op.name = "audio"
    /\ ret = <<"llm", TRUE>>
    /\ \E i \in DOMAIN sent : sent[i] = [to |-> op.ws, tag |-> "fallback"]
    /\ \E i \in DOMAIN sent : sent[i] = [to |-> op.ws, tag |-> "error"]
    /\ conn[op.ws].st = "open"
    /\ monitors[op.ws] = "running"
\* C35: once an input has been classified as an emergency, every later step
\* of the server (inputs on this or any other connection, connects, timers,
\* monitor polls) leaves the emergency flag true and the stage 'emergency',
\* so the condition of the gentle check-in does not hold again.
C35_EmergencyIsPermanent ==
    [][voice_state.emergency_detected
         => /\ voice_state'.emergency_detected
            /\ voice_state'.conversation_stage = "emergency"
            /\ ~ProactiveCondition(voice_state')]_vars

\* an input that is no emergency was handled after the emergency had been
\* detected: the flag and the stage are still those of the emergency
C35_Witness ==
    /\ op.name \in {"text", "audio"}
    /\ op.arg # EmptyText
    /\ ~DetectTable[op.arg][1]
    /\ voice_state.emergency_detected
    /\ voice_state.conversation_stage = "emergency"

\* C34: the phase follows the order of a normal turn: the first user input
\* moves idle to listening, the phase is processing when the reply is
\* produced and speaking afterwards, and the phase is emergency once the
\* urgency has been escalated to its last level
C34_PhaseOrder ==
    [][/\ (op'.name = "on_sentence" /\ pipeline.current_state = "idle")
          => pipeline'.current_state = "listening"
       /\ op'.name = "on_llm_response"
          => (pipeline.current_state = "processing" /\ pipeline'.current_state = "speaking")
       /\ (pipeline.current_urgency # "emergency" /\ pipeline'.current_urgency = "emergency")
          => pipeline'.current_state = "emergency"]_vars

\* the place of a callback in the order timeout, escalation, emergency
CallbackRank(callback) ==
    IF callback = "on_timeout" THEN 1 ELSE IF callback = "on_escalation" THEN 2 ELSE 3

\* the threshold the monitor tests before it runs the handler of a callback
CallbackThreshold(d, callback) ==
    IF callback = "on_timeout" THEN d.timeout_threshold
    ELSE IF callback = "on_escalation" THEN d.escalation_threshold
    ELSE d.emergency_threshold

\* the callbacks invoked since the last start_monitoring
Fired(d) == {d.fired[i] : i \in DOMAIN d.fired}

\* C36: whatever the three thresholds are, a callback is invoked only when
\* the time since the AI spoke has reached its own threshold, on_escalation
\* only after on_timeout, on_emergency only after on_escalation, and never a
\* callback that comes earlier in the order than one already invoked.
C36_CallbacksInOrder ==
    [][(op'.name = "monitor_response" /\ ret' # NoRet)
         => LET callback == ret'[1] IN
            /\ detector.elapsed >= CallbackThreshold(detector, callback)
            /\ callback = "on_escalation" => "on_timeout" \in Fired(detector)
            /\ callback = "on_emergency" => "on_escalation" \in Fired(detector)
            /\ \A earlier \in Fired(detector) :
                   CallbackRank(earlier) <= CallbackRank(callback)]_vars

\* all three callbacks were invoked by a detector whose thresholds descend
C36_Witness ==
    /\ op.name = "monitor_response"
    /\ detector.fired = <<"on_timeout", "on_escalation", "on_emergency">>
    /\ detector.timeout_threshold > detector.escalation_threshold
    /\ detector.escalation_threshold > detector.emergency_threshold

\* C37: user_responded() leaves the status RESPONDED, is_monitoring false,
\* no monitoring task stored and none running; while the status is RESPONDED
\* no callback is invoked; and at no time is more than one task running.
C37_ResponseEndsMonitoring ==
    [][/\ op'.name = "user_responded"
          => /\ detector'.current_status = "responded"
             /\ ~detector'.is_monitoring
             /\ detector'.monitoring_task = 0
             /\ \A i \in DOMAIN detector'.tasks : detector'.tasks[i] # "running"
       /\ detector.current_status = "responded"
          => ~(op'.name = "monitor_response" /\ ret' # NoRet)
       /\ Cardinality({i \in DOMAIN detector'.tasks : detector'.tasks[i] = "running"}) <= 1]_vars

\* the user responded after a callback had been invoked, and the task that
\* invoked it has been cancelled
C37_Witness ==
    /\ op.name = "user_responded"
    /\ detector.fired # << >>
    /\ \E i \in DOMAIN detector.tasks : detector.tasks[i] = "cancelling"

\* C38: between one start_monitoring and the next, none of on_timeout,
\* on_escalation and on_emergency is invoked twice.
C38_EachCallbackOnce ==
    \A i, j \in DOMAIN detector.fired : i # j => detector.fired[i] # detector.fired[j]

\* C39: during one period of user inactivity the timeout handler runs at
\* most once per urgency level, and the urgency is not raised to emergency
\* before the inactivity has passed the escalation threshold
C39_TimeoutOncePerLevel ==
    [][/\ \A i, j \in DOMAIN pipeline'.handled :
              i # j => pipeline'.handled[i] # pipeline'.handled[j]
       /\ (pipeline.current_urgency # "emergency" /\ pipeline'.current_urgency = "emergency")
          => pipeline.idle > EscalationThreshold]_vars

\* C40: every record stored in the active-call table is eventually removed
\* from it, and a record that is not older than one hour is never removed
\* by a cleanup.
C40_OldCallsRemoved ==
    /\ \A sid \in 1..MaxStored :
           (sid \in DOMAIN call_service.active_calls)
               ~> (sid \notin DOMAIN call_service.active_calls)
    /\ [][\A sid \in DOMAIN call_service.active_calls :
              (call_service.now - call_service.active_calls[sid] <= CleanupAge)
                  => sid \in DOMAIN call_service'.active_calls]_vars

====
